---- MODULE Spec2Model ----
(***************************************************************************)
(* Model of fitbit_to_influx.py: the authenticated Fitbit client           *)
(* (FitbitAPI.make_request / refresh_access_token), the normalizers of     *)
(* FitbitDataProcessor, the InfluxDB writer and the main() pipeline.       *)
(*                                                                         *)
(* One run of main() is a single sequential process.  Every HTTP exchange  *)
(* is one step: the response is chosen by the environment (the remote API, *)
(* the token endpoint, the InfluxDB server).                               *)
(***************************************************************************)
EXTENDS Integers, Sequences, FiniteSets, TLC

VARIABLES
    environ,        \* os.environ (changed by load_environment_from_file)
    dotenv,         \* the settings of the .env file
    config,         \* module-level configuration, fixed when the module is loaded
    pc,             \* position of main()
    idx,            \* loop index of main() / step of calculate_pem_risk
    api,            \* the FitbitAPI object (the Credentials record), or NoApi
    mr,             \* the running make_request call
    all_points,     \* main(): the batch
    risk_score,     \* calculate_pem_risk(): the local risk_score
    pem_risk,       \* main(): the local pem_risk
    faults,         \* remote API: non-200 answers it may still give
    issued,         \* token endpoint: token pairs minted so far
    dataset,        \* remote API: the account's data, per endpoint
    gets,           \* history: the GET requests of the current fetch
    refreshes,      \* history: the refresh calls of the current fetch
    calls,          \* history: the fetches (outermost make_request calls) of the run
    sink,           \* history: the write_api.write calls received by InfluxDB
    first_fetch,    \* history: how the first fetch of the run ended
    outcome         \* history: what main() reported at its end

vars == <<environ, dotenv, config, pc, idx, api, mr, all_points, risk_score,
          pem_risk, faults, issued, dataset, gets, refreshes, calls, sink,
          first_fetch, outcome>>

(***************************************************************************)
(* Bounds of the environment.                                              *)
(***************************************************************************)
\* the remote API answers at most this many GETs of a run with a non-200
MaxRunFaults == 2

\* the same for a fetch looked at on its own
MaxFetchFaults == 3

(***************************************************************************)
(* Python helpers.                                                         *)
(***************************************************************************)
\* dict.get(k, default)
DictGet(d, k, default) == IF k \in DOMAIN d THEN d[k] ELSE default

\* truth value of a dict or a list: non-empty
Truthy(v) == DOMAIN v # {}

\* str.replace(old, new) for a one-character old
RECURSIVE Replace(_, _, _)
Replace(s, old, new) ==
    IF s = "" THEN ""
    ELSE (IF SubSeq(s, 1, 1) = old THEN new ELSE SubSeq(s, 1, 1))
         \o Replace(SubSeq(s, 2, Len(s)), old, new)

\* s.split(sep)[-1] for a one-character sep
RECURSIVE LastSegment(_, _)
LastSegment(s, sep) ==
    IF \E i \in 1..Len(s) : SubSeq(s, i, i) = sep
    THEN LastSegment(SubSeq(s, (CHOOSE i \in 1..Len(s) : SubSeq(s, i, i) = sep) + 1, Len(s)), sep)
    ELSE s

\* all([...]) over the four credentials: none is the empty string
AllSet(c) == c.client_id # "" /\ c.client_secret # "" /\ c.access_token # ""
             /\ c.refresh_token # ""

(***************************************************************************)
(* Module-level configuration.                                             *)
(***************************************************************************)
CredKeys == {"FITBIT_CLIENT_ID", "FITBIT_CLIENT_SECRET", "FITBIT_ACCESS_TOKEN",
             "FITBIT_REFRESH_TOKEN"}

\* os.getenv(key, default): a variable that is not set is outside the domain
GetEnv(env, key, default) == DictGet(env, key, default)

UpperCase == "ABCDEFGHIJKLMNOPQRSTUVWXYZ"
LowerCase == "abcdefghijklmnopqrstuvwxyz"

LowerChar(c) ==
    IF \E i \in 1..26 : SubSeq(UpperCase, i, i) = c
    THEN LET i == CHOOSE j \in 1..26 : SubSeq(UpperCase, j, j) = c
         IN SubSeq(LowerCase, i, i)
    ELSE c

\* str.lower()
RECURSIVE Lower(_)
Lower(s) == IF s = "" THEN "" ELSE LowerChar(SubSeq(s, 1, 1)) \o Lower(SubSeq(s, 2, Len(s)))

\* sub in s
Contains(s, sub) ==
    \E i \in 1..(Len(s) - Len(sub) + 1) : SubSeq(s, i, i + Len(sub) - 1) = sub

ConditionEnv == [long_covid |-> "HEALTH_LONG_COVID", pots |-> "HEALTH_POTS",
                 small_fiber_neuropathy |-> "HEALTH_SMALL_FIBER_NEUROPATHY",
                 pem |-> "HEALTH_PEM", dysautonomia |-> "HEALTH_DYSAUTONOMIA"]

\* a configuration that takes a flag without a setting as disabled
HEALTH_CONDITIONS_DefaultOff(env) ==
    [c \in DOMAIN ConditionEnv |-> Lower(GetEnv(env, ConditionEnv[c], "false")) = "true"]

HEALTH_CONDITIONS(env) ==
    [c \in DOMAIN ConditionEnv |-> Lower(GetEnv(env, ConditionEnv[c], "true")) = "true"]

ModuleConfig(env) ==
    [FITBIT_CLIENT_ID      |-> GetEnv(env, "FITBIT_CLIENT_ID", ""),
     FITBIT_CLIENT_SECRET  |-> GetEnv(env, "FITBIT_CLIENT_SECRET", ""),
     FITBIT_ACCESS_TOKEN   |-> GetEnv(env, "FITBIT_ACCESS_TOKEN", ""),
     FITBIT_REFRESH_TOKEN  |-> GetEnv(env, "FITBIT_REFRESH_TOKEN", ""),
     INFLUX_TOKEN          |-> GetEnv(env, "INFLUX_TOKEN", ""),
     HEALTH_CONDITIONS     |-> HEALTH_CONDITIONS(env)]

DAILY_METRICS ==
    << "activities/steps", "activities/calories", "activities/distance",
       "activities/floors", "activities/elevation", "activities/minutesSedentary",
       "activities/minutesLightlyActive", "activities/minutesFairlyActive",
       "activities/minutesVeryActive", "activities/active-zone-minutes",
       "activities/heart", "body/weight", "body/bmi", "body/fat", "sleep", "spo2",
       "hrv" >>

INTRADAY_METRICS ==
    << "activities/heart", "activities/steps", "activities/calories",
       "activities/distance", "activities/floors", "activities/active-zone-minutes" >>

\* the three endpoints calculate_pem_risk fetches, in its order
PEM_ENDPOINTS == << "activities/heart", "activities/steps", "hrv" >>

\* main(): today = datetime.now().strftime('%Y-%m-%d')
Today == "2024-01-15"

(***************************************************************************)
(* The remote API, the token endpoint and InfluxDB (the environment).      *)
(***************************************************************************)
\* "a" :> 1, the one-entry dict
Entry(k, v) == [x \in {k} |-> v]

NoHeaders == <<>>

\* a Retry-After header: seconds, or the HTTP-date form of the same header
RetryAfterValues == {"2", "Wed, 21 Oct 2026 07:28:00 GMT"}

\* what requests.get() can come back with: a response, or a RequestException
\* (timeout, connection failure) instead of one
ResponseOK == [exception |-> FALSE, status |-> 200, headers |-> NoHeaders]

FaultResponses ==
    { [exception |-> FALSE, status |-> 401, headers |-> NoHeaders],
      [exception |-> FALSE, status |-> 429, headers |-> NoHeaders],
      [exception |-> FALSE, status |-> 500, headers |-> NoHeaders],
      [exception |-> TRUE,  status |-> 0,   headers |-> NoHeaders] }
    \cup { [exception |-> FALSE, status |-> 429, headers |-> Entry("Retry-After", v)] :
             v \in RetryAfterValues }

GetResponses == {ResponseOK} \cup (IF faults > 0 THEN FaultResponses ELSE {})

\* the token pair the token endpoint mints as its n-th
MintedAccess(n)  == "access-" \o ToString(n)
MintedRefresh(n) == "refresh-" \o ToString(n)

\* what requests.post() to the token endpoint can come back with; keys are the
\* keys of the JSON object of a 200 response
TokenResponses ==
    { [exception |-> TRUE,  status |-> 0,   keys |-> {}],
      [exception |-> FALSE, status |-> 400, keys |-> {}] }
    \cup { [exception |-> FALSE, status |-> 200, keys |-> ks] :
             ks \in SUBSET {"access_token", "refresh_token"} }

(***************************************************************************)
(* FitbitAPI.                                                              *)
(***************************************************************************)
NoApi == [client_id |-> "", client_secret |-> "", access_token |-> "",
          refresh_token |-> ""]

\* FitbitAPI.__init__ before its validation
NewApi(cfg) == [client_id     |-> cfg.FITBIT_CLIENT_ID,
                client_secret |-> cfg.FITBIT_CLIENT_SECRET,
                access_token  |-> cfg.FITBIT_ACCESS_TOKEN,
                refresh_token |-> cfg.FITBIT_REFRESH_TOKEN]

None == [none |-> TRUE, data |-> <<>>]
Some(d) == [none |-> FALSE, data |-> d]

Idle == [pc |-> "idle", endpoint |-> "", date |-> "", detail_level |-> "",
         depth |-> 0, slept |-> 0, result |-> None]

\* the activation of make_request(endpoint, date, detail_level); depth counts the
\* enclosing activations of the same fetch, slept the time.sleep() before it
Activation(endpoint, date, detail_level, depth, slept) ==
    [pc |-> "get", endpoint |-> endpoint, date |-> date,
     detail_level |-> detail_level, depth |-> depth, slept |-> slept,
     result |-> None]

BaseUrl == "https://api.fitbit.com/1/user/-"

\* make_request: the URL
Url(endpoint, date, detail_level) ==
    BaseUrl \o "/" \o endpoint \o "/date/" \o date
        \o (IF detail_level # "" THEN "/" \o detail_level ELSE "") \o ".json"

Digits == {"0", "1", "2", "3", "4", "5", "6", "7", "8", "9"}

IsDigits(s) == Len(s) > 0 /\ \A i \in 1..Len(s) : SubSeq(s, i, i) \in Digits

DigitValue(c) == CHOOSE d \in 0..9 : ToString(d) = c

RECURSIVE ParseDigits(_)
ParseDigits(s) ==
    IF s = "" THEN 0
    ELSE 10 * ParseDigits(SubSeq(s, 1, Len(s) - 1)) + DigitValue(SubSeq(s, Len(s), Len(s)))

DefaultRetryAfter == 3600

\* int(response.headers.get('Retry-After', 3600)): the seconds, or a ValueError
RetryAfterRaises(headers) ==
    "Retry-After" \in DOMAIN headers /\ ~IsDigits(headers["Retry-After"])

\* a default wait of a minute
RetryAfter_ShortDefault(headers) ==
    IF "Retry-After" \in DOMAIN headers
    THEN ParseDigits(headers["Retry-After"])
    ELSE 60

RetryAfter(headers) ==
    IF "Retry-After" \in DOMAIN headers
    THEN ParseDigits(headers["Retry-After"])
    ELSE DefaultRetryAfter

\* make_request returns (to the caller of the outermost activation)
Return(m, result) == [m EXCEPT !.pc = "returned", !.result = result]

\* a client that sleeps and retries on a server error as it does on a 429
Respond_RetryOnError(m, r) ==
    IF r.status = 429 \/ r.status >= 500
    THEN IF RetryAfterRaises(r.headers)
         THEN [m EXCEPT !.pc = "raised"]
         ELSE Activation(m.endpoint, m.date, m.detail_level, m.depth + 1,
                         RetryAfter(r.headers))
    ELSE IF r.status >= 400 /\ r.status < 600
         THEN Return(m, None)
         ELSE Return(m, Some(dataset[m.endpoint]))

\* a client that refreshes its tokens on a server error
Respond_RefreshOnError(m, r) ==
    IF r.status = 429
    THEN IF RetryAfterRaises(r.headers)
         THEN [m EXCEPT !.pc = "raised"]
         ELSE Activation(m.endpoint, m.date, m.detail_level, m.depth + 1,
                         RetryAfter(r.headers))
    ELSE IF r.status >= 500 /\ r.status < 600
         THEN [m EXCEPT !.pc = "refresh"]
         ELSE IF r.status >= 400 /\ r.status < 500
              THEN Return(m, None)
              ELSE Return(m, Some(dataset[m.endpoint]))

\* lines 169-177: what make_request does with the response it holds after the
\* 401 handling.  A 429 sleeps and calls make_request again with the same
\* arguments; the ValueError of int() is not a RequestException and escapes.
Respond(m, r) ==
    IF r.status = 429
    THEN IF RetryAfterRaises(r.headers)
         THEN [m EXCEPT !.pc = "raised"]
         ELSE Activation(m.endpoint, m.date, m.detail_level, m.depth + 1,
                         RetryAfter(r.headers))
    ELSE IF r.status >= 400 /\ r.status < 600
         THEN Return(m, None)                        \* raise_for_status
         ELSE Return(m, Some(dataset[m.endpoint]))   \* response.json()

\* the entry of a GET in the history
Sent(m, r, token) ==
    [url |-> Url(m.endpoint, m.date, m.detail_level), token |-> token,
     depth |-> m.depth, slept |-> m.slept,
     status |-> r.status, headers |-> r.headers, exception |-> r.exception]

Charge(r) == IF r = ResponseOK THEN faults ELSE faults - 1

\* lines 138-160: the first GET of an activation
MrAfterGet(m, r) ==
    IF r.exception THEN Return(m, None)
    ELSE IF r.status = 401 THEN [m EXCEPT !.pc = "refresh"]
    ELSE Respond(m, r)

Get ==
    /\ mr.pc = "get"
    /\ \E r \in GetResponses :
         /\ gets' = Append(gets, Sent(mr, r, api.access_token))
         /\ faults' = Charge(r)
         /\ mr' = MrAfterGet(mr, r)
    /\ UNCHANGED <<environ, dotenv, config, pc, idx, api, all_points, risk_score,
                   pem_risk, issued, dataset, refreshes, calls, sink, first_fetch,
                   outcome>>

\* a refresh that stores the new access token only
ApiAfterRefresh_AccessOnly(a, t, n) ==
    IF t.exception \/ t.status # 200 \/ ~({"access_token", "refresh_token"} \subseteq t.keys)
    THEN a
    ELSE [a EXCEPT !.access_token = MintedAccess(n)]

\* refresh_access_token, lines 121-134: the Credentials after the call
ApiAfterRefresh(a, t, n) ==
    IF t.exception \/ t.status # 200 THEN a
    ELSE IF "access_token" \notin t.keys THEN a           \* KeyError, line 123
    ELSE IF "refresh_token" \notin t.keys
         THEN [a EXCEPT !.access_token = MintedAccess(n)] \* KeyError, line 124
         ELSE [a EXCEPT !.access_token = MintedAccess(n),
                        !.refresh_token = MintedRefresh(n)]

\* refresh_access_token: its return value
RefreshReturns(t) ==
    /\ ~t.exception
    /\ t.status = 200
    /\ {"access_token", "refresh_token"} \subseteq t.keys

\* a failed refresh that raises instead of returning None
MrAfterRefresh_Raises(m, ok) ==
    IF ok THEN [m EXCEPT !.pc = "retry"] ELSE [m EXCEPT !.pc = "raised"]

\* lines 160-167: the 401 handling up to the decision to retry
MrAfterRefresh(m, ok) == IF ok THEN [m EXCEPT !.pc = "retry"] ELSE Return(m, None)

Refresh ==
    /\ mr.pc = "refresh"
    /\ \E t \in TokenResponses :
         LET n == IF ~t.exception /\ t.status = 200 THEN issued + 1 ELSE issued IN
         /\ issued' = n
         /\ api' = ApiAfterRefresh(api, t, n)
         /\ refreshes' = Append(refreshes,
                [depth |-> mr.depth, sent |-> api.refresh_token,
                 basic |-> api.client_id \o ":" \o api.client_secret,
                 before |-> api, after |-> api', response |-> t,
                 returned |-> RefreshReturns(t)])
         /\ mr' = MrAfterRefresh(mr, RefreshReturns(t))
    /\ UNCHANGED <<environ, dotenv, config, pc, idx, all_points, risk_score,
                   pem_risk, faults, dataset, gets, calls, sink, first_fetch,
                   outcome>>

\* a retry that takes a second 401 like the first
MrAfterRetry_RefreshAgain(m, r) == MrAfterGet(m, r)

\* lines 163-177: the GET repeated with the new token
MrAfterRetry(m, r) == IF r.exception THEN Return(m, None) ELSE Respond(m, r)

GetRetry ==
    /\ mr.pc = "retry"
    /\ \E r \in GetResponses :
         /\ gets' = Append(gets, Sent(mr, r, api.access_token))
         /\ faults' = Charge(r)
         /\ mr' = MrAfterRetry(mr, r)
    /\ UNCHANGED <<environ, dotenv, config, pc, idx, api, all_points, risk_score,
                   pem_risk, issued, dataset, refreshes, calls, sink, first_fetch,
                   outcome>>

(***************************************************************************)
(* FitbitDataProcessor: the normalizers.                                   *)
(*                                                                         *)
(* A payload is the JSON tree of a response: a dict is a function on its   *)
(* keys, a list a sequence.  A key is either absent or holds a value of    *)
(* the shape the code reads; the errors modelled are the KeyError of a     *)
(* subscript on an absent key and the ValueError of strptime.              *)
(***************************************************************************)
IsNumber(s, lo, hi) == IsDigits(s) /\ ParseDigits(s) >= lo /\ ParseDigits(s) <= hi

\* datetime.strptime(s, '%Y-%m-%d') succeeds (on the zero-padded form)
IsDate(s) ==
    /\ Len(s) = 10
    /\ SubSeq(s, 5, 5) = "-" /\ SubSeq(s, 8, 8) = "-"
    /\ IsDigits(SubSeq(s, 1, 4))
    /\ IsNumber(SubSeq(s, 6, 7), 1, 12)
    /\ IsNumber(SubSeq(s, 9, 10), 1, 31)

\* datetime.strptime(s, '%H:%M:%S') succeeds (on the zero-padded form)
IsTime(s) ==
    /\ Len(s) = 8
    /\ SubSeq(s, 3, 3) = ":" /\ SubSeq(s, 6, 6) = ":"
    /\ IsNumber(SubSeq(s, 1, 2), 0, 23)
    /\ IsNumber(SubSeq(s, 4, 5), 0, 59)
    /\ IsNumber(SubSeq(s, 7, 8), 0, 61)

\* Point(measurement).field(...).tag(...).time(...)
Point(measurement, fields, tags, time) ==
    [measurement |-> measurement, fields |-> fields, tags |-> tags, time |-> time]

NoTags == <<>>

\* for condition, enabled in HEALTH_CONDITIONS.items(): if enabled: tag(condition, 'true')
HealthTags(hc) == [c \in {d \in DOMAIN hc : hc[d]} |-> "true"]

\* what the body of a for loop did with one record
Emit(point) == [kind |-> "point", point |-> point]
Skip == [kind |-> "skip", point |-> <<>>]
Raise == [kind |-> "raise", point |-> <<>>]

\* the records a loop gets through: all of them, or those before the first raise
Reached(steps) ==
    IF \E i \in 1..Len(steps) : steps[i].kind = "raise"
    THEN (CHOOSE i \in 1..Len(steps) :
             /\ steps[i].kind = "raise"
             /\ \A j \in 1..(i - 1) : steps[j].kind # "raise") - 1
    ELSE Len(steps)

RECURSIVE PointsOf(_, _)
PointsOf(steps, n) ==
    IF n = 0 THEN <<>>
    ELSE IF steps[n].kind = "point"
         THEN Append(PointsOf(steps, n - 1), steps[n].point)
         ELSE PointsOf(steps, n - 1)

\* the points list when the loop ends or raises, and whether it raised
Loop(steps) == [points |-> PointsOf(steps, Reached(steps)),
                raised |-> Reached(steps) < Len(steps)]

NoPoints == [points |-> <<>>, raised |-> FALSE]

\* lines 225-238
HeartStep(rec, measurement, date, hc) ==
    IF "value" \notin DOMAIN rec THEN Raise
    ELSE IF "restingHeartRate" \in DOMAIN rec["value"]
         THEN Emit(Point(measurement,
                         [resting_heart_rate |-> rec["value"]["restingHeartRate"]],
                         HealthTags(hc), date))
         ELSE Skip

\* a sleep rule that takes the sessions marked as not the main sleep too
SleepStep_NapsToo(rec, measurement, hc) ==
    IF "dateOfSleep" \notin DOMAIN rec \/ ~IsDate(rec["dateOfSleep"]) THEN Raise
    ELSE Emit(Point(measurement,
                    [efficiency     |-> DictGet(rec, "efficiency", 0),
                     minutes_asleep |-> DictGet(rec, "minutesAsleep", 0),
                     minutes_awake  |-> DictGet(rec, "minutesAwake", 0),
                     time_in_bed    |-> DictGet(rec, "timeInBed", 0)],
                    HealthTags(hc), rec["dateOfSleep"]))

\* lines 243-259
SleepStep(rec, measurement, hc) ==
    IF ~DictGet(rec, "isMainSleep", TRUE) THEN Skip
    ELSE IF "dateOfSleep" \notin DOMAIN rec \/ ~IsDate(rec["dateOfSleep"]) THEN Raise
    ELSE Emit(Point(measurement,
                    [efficiency     |-> DictGet(rec, "efficiency", 0),
                     minutes_asleep |-> DictGet(rec, "minutesAsleep", 0),
                     minutes_awake  |-> DictGet(rec, "minutesAwake", 0),
                     time_in_bed    |-> DictGet(rec, "timeInBed", 0)],
                    HealthTags(hc), rec["dateOfSleep"]))

\* a ratio computed without the test of hf
Ratio_Unguarded(lf, hf) == [num |-> lf, den |-> hf]

\* lf / hf as the fraction it is; 0 is 0/1
Ratio(lf, hf) == IF hf # 0 THEN [num |-> lf, den |-> hf] ELSE [num |-> 0, den |-> 1]

\* lines 264-286
HrvStep(rec, measurement, hc) ==
    IF ~("value" \in DOMAIN rec /\ Truthy(rec["value"])) THEN Skip
    ELSE IF "dateTime" \notin DOMAIN rec \/ ~IsDate(rec["dateTime"]) THEN Raise
    ELSE LET value == rec["value"]
             lf == DictGet(value, "lf", 0)
             hf == DictGet(value, "hf", 1)
         IN Emit(Point(measurement,
                       [daily_rmssd |-> DictGet(value, "dailyRmssd", 0),
                        deep_rmssd  |-> DictGet(value, "deepRmssd", 0),
                        lf |-> lf, hf |-> hf, lf_hf_ratio |-> Ratio(lf, hf)],
                       HealthTags(hc), rec["dateTime"]))

\* lines 291-298
Spo2Step(rec, measurement) ==
    IF "value" \notin DOMAIN rec THEN Skip
    ELSE IF "dateTime" \notin DOMAIN rec \/ ~IsDate(rec["dateTime"]) THEN Raise
    ELSE Emit(Point(measurement,
                    [value |-> DictGet(rec["value"], "avg", 0),
                     min   |-> DictGet(rec["value"], "min", 0),
                     max   |-> DictGet(rec["value"], "max", 0)],
                    NoTags, rec["dateTime"]))

\* a generic rule that asks for the date key only
GenericStep_DateOnly(rec, measurement) ==
    IF "dateTime" \notin DOMAIN rec THEN Skip
    ELSE IF ~IsDate(rec["dateTime"]) THEN Raise
    ELSE Emit(Point(measurement, [value |-> DictGet(rec, "value", 0)], NoTags,
                    rec["dateTime"]))

\* lines 305-310
GenericStep(rec, measurement) ==
    IF ~("dateTime" \in DOMAIN rec /\ "value" \in DOMAIN rec) THEN Skip
    ELSE IF ~IsDate(rec["dateTime"]) THEN Raise
    ELSE Emit(Point(measurement, [value |-> rec["value"]], NoTags, rec["dateTime"]))

\* data[key] when the key is there and its list is not empty, else no records
Records(data, key) ==
    IF key \in DOMAIN data /\ Truthy(data[key]) THEN data[key] ELSE <<>>

\* process_daily_summary, lines 220-315, on the payload of the fetch
NormalizeDaily(metric, date, data, hc) ==
    LET measurement == Replace(metric, "/", "_") IN
    IF metric = "activities/heart"
    THEN LET recs == Records(data, "activities-heart") IN
         IF recs = <<>> THEN NoPoints
         ELSE Loop(<<HeartStep(recs[1], measurement, date, hc)>>)
    ELSE IF metric = "sleep"
    THEN LET recs == Records(data, "sleep") IN
         Loop([i \in 1..Len(recs) |-> SleepStep(recs[i], measurement, hc)])
    ELSE IF metric = "hrv"
    THEN LET recs == Records(data, "hrv") IN
         Loop([i \in 1..Len(recs) |-> HrvStep(recs[i], measurement, hc)])
    ELSE IF metric = "spo2"
    THEN LET recs == Records(data, "spo2") IN
         Loop([i \in 1..Len(recs) |-> Spo2Step(recs[i], measurement)])
    ELSE LET recs == Records(data, LastSegment(metric, "/")) IN
         Loop([i \in 1..Len(recs) |-> GenericStep(recs[i], measurement)])

\* process_daily_summary, lines 216-218 and 315, on the result of the fetch
process_daily_summary(metric, date, result, hc) ==
    IF result.none \/ ~Truthy(result.data) THEN <<>>
    ELSE NormalizeDaily(metric, date, result.data, hc).points

\* lines 343-359
IntradayStep(entry, metric, measurement, date, hc) ==
    IF ~("time" \in DOMAIN entry /\ "value" \in DOMAIN entry) THEN Skip
    ELSE IF ~(IsDate(date) /\ IsTime(entry["time"])) THEN Raise
    ELSE Emit(Point(measurement, [value |-> entry["value"]],
                    IF metric \in {"activities/heart", "hrv"} THEN HealthTags(hc) ELSE NoTags,
                    date \o " " \o entry["time"]))

IntradayKeys(data) == {k \in DOMAIN data : Contains(Lower(k), "intraday")}

\* process_intraday_data, lines 324-364, on the payload of the fetch; the key is
\* the first one in the payload's order, which a payload with one such key fixes
NormalizeIntraday(metric, date, data, hc) ==
    LET measurement == Replace(metric, "/", "_") \o "_intraday" IN
    IF IntradayKeys(data) = {} THEN NoPoints
    ELSE LET intraday_key == CHOOSE k \in IntradayKeys(data) : TRUE IN
         IF "dataset" \notin DOMAIN data[intraday_key] THEN NoPoints
         ELSE LET ds == data[intraday_key]["dataset"] IN
              Loop([i \in 1..Len(ds) |-> IntradayStep(ds[i], metric, measurement, date, hc)])

\* process_intraday_data, lines 319-322 and 364, on the result of the fetch
process_intraday_data(metric, date, result, hc) ==
    IF result.none \/ ~Truthy(result.data) THEN <<>>
    ELSE NormalizeIntraday(metric, date, result.data, hc).points

IntradayEndpoint(metric) == metric \o "/intraday"

DetailLevel == "1min"

\* calculate_pem_risk, lines 374-395: what its k-th fetch adds to risk_score,
\* and whether reading the payload raised
PemAdds(add) == [add |-> add, raised |-> FALSE]
PemRaises == [add |-> 0, raised |-> TRUE]

PemHeart(result) ==
    LET recs == IF result.none \/ ~Truthy(result.data) THEN <<>>
                ELSE Records(result.data, "activities-heart") IN
    IF recs = <<>> THEN PemAdds(0)
    ELSE IF "value" \notin DOMAIN recs[1] THEN PemRaises
    ELSE PemAdds(IF DictGet(recs[1]["value"], "restingHeartRate", 0) > 100 THEN 30 ELSE 0)

PemSteps(result) ==
    LET recs == IF result.none \/ ~Truthy(result.data) THEN <<>>
                ELSE Records(result.data, "activities-steps") IN
    IF recs = <<>> THEN PemAdds(0)
    ELSE PemAdds(IF DictGet(recs[1], "value", 0) > 5000 THEN 25 ELSE 0)

\* a score that looks at every HRV record with a value block
PemHrv_AnyRecord(result) ==
    LET recs == IF result.none \/ ~Truthy(result.data) THEN <<>>
                ELSE Records(result.data, "hrv")
        valued == {i \in 1..Len(recs) : "value" \in DOMAIN recs[i] /\ Truthy(recs[i]["value"])}
    IN PemAdds(IF \E i \in valued : DictGet(recs[i]["value"], "dailyRmssd", 0) < 20
               THEN 45 ELSE 0)

PemHrv(result) ==
    LET recs == IF result.none \/ ~Truthy(result.data) THEN <<>>
                ELSE Records(result.data, "hrv")
        valued == {i \in 1..Len(recs) : "value" \in DOMAIN recs[i] /\ Truthy(recs[i]["value"])}
    IN IF valued = {} THEN PemAdds(0)
       ELSE LET first == CHOOSE i \in valued : \A j \in valued : i <= j IN
            PemAdds(IF DictGet(recs[first]["value"], "dailyRmssd", 0) < 20 THEN 45 ELSE 0)

PemStep(k, result) ==
    CASE k = 1 -> PemHeart(result)
      [] k = 2 -> PemSteps(result)
      [] OTHER -> PemHrv(result)

Min(a, b) == IF a <= b THEN a ELSE b

\* str(bool)
Str(b) == IF b THEN "True" ELSE "False"

\* a risk-score Point without its field
PemPoint_NoField(score, hc) ==
    Point("pem_risk", <<>>,
          [long_covid |-> Str(DictGet(hc, "long_covid", FALSE)),
           pots |-> Str(DictGet(hc, "pots", FALSE))],
          "now")

\* main, lines 459-463
PemPoint(score, hc) ==
    Point("pem_risk", [risk_score |-> score],
          [long_covid |-> Str(DictGet(hc, "long_covid", FALSE)),
           pots |-> Str(DictGet(hc, "pots", FALSE))],
          "now")

\* main, lines 455 and 479
ScoringEnabled(hc) == DictGet(hc, "long_covid", FALSE) \/ DictGet(hc, "pem", FALSE)

(***************************************************************************)
(* The settings and the data a run starts from.                            *)
(***************************************************************************)
Credentials == [FITBIT_CLIENT_ID |-> "client", FITBIT_CLIENT_SECRET |-> "secret",
                FITBIT_ACCESS_TOKEN |-> "access-0", FITBIT_REFRESH_TOKEN |-> "refresh-0"]

Influx == [INFLUX_TOKEN |-> "token"]

AllFlags(v) == [k \in {ConditionEnv[c] : c \in DOMAIN ConditionEnv} |-> v]

NoSettings == <<>>

Endpoints == {DAILY_METRICS[i] : i \in 1..Len(DAILY_METRICS)}
             \cup {IntradayEndpoint(INTRADAY_METRICS[i]) : i \in 1..Len(INTRADAY_METRICS)}

NoData == [e \in Endpoints |-> <<>>]

\* an account with data for some of the metrics
Canned ==
    [e \in {"activities/heart"} |->
        [x \in {"activities-heart"} |->
            << [dateTime |-> Today, value |-> [restingHeartRate |-> 110]] >>]]
    @@ [e \in {"activities/steps"} |->
        [x \in {"activities-steps", "steps"} |-> << [dateTime |-> Today, value |-> 6000] >>]]
    @@ [e \in {"body/weight"} |->
        [weight |-> << [dateTime |-> Today, value |-> 70], [dateTime |-> Today] >>]]
    @@ [e \in {"sleep"} |->
        [sleep |-> << [dateOfSleep |-> "2024-01-14", efficiency |-> 90, minutesAsleep |-> 400],
                      [dateOfSleep |-> Today, isMainSleep |-> FALSE] >>]]
    @@ [e \in {"spo2"} |->
        [spo2 |-> << [dateTime |-> Today, value |-> [avg |-> 96, min |-> 93]] >>]]
    @@ [e \in {"hrv"} |->
        [hrv |-> << [dateTime |-> Today, value |-> [dailyRmssd |-> 15, lf |-> 3, hf |-> 0]] >>]]
    @@ [e \in {"activities/heart/intraday"} |->
        [x \in {"activities-heart-intraday"} |->
            [dataset |-> << [time |-> "00:01:00", value |-> 61] >>]]]
    @@ NoData

\* an account whose payloads have records the normalizers raise on
Malformed ==
    [e \in {"activities/heart"} |->
        [x \in {"activities-heart"} |-> << [dateTime |-> Today] >>]]
    @@ [e \in {"sleep"} |->
        [sleep |-> << [dateOfSleep |-> Today, efficiency |-> 80], [efficiency |-> 70] >>]]
    @@ [e \in {"activities/steps/intraday"} |->
        [x \in {"activities-steps-intraday"} |->
            [dataset |-> << [time |-> "24:00:00", value |-> 5] >>]]]
    @@ NoData

\* (os.environ when the module is loaded, the .env file, the account's data)
Scenarios ==
    << [os |-> Credentials @@ Influx, file |-> NoSettings, data |-> Canned],
       [os |-> Credentials @@ Influx, file |-> NoSettings, data |-> NoData],
       [os |-> Credentials @@ Influx @@ AllFlags("false"), file |-> NoSettings,
        data |-> Canned],
       [os |-> Credentials @@ Influx @@ AllFlags("false"), file |-> NoSettings,
        data |-> NoData],
       [os |-> Credentials @@ Influx @@ [HEALTH_PEM |-> "TRUE"] @@ AllFlags("false"),
        file |-> NoSettings, data |-> Malformed],
       [os |-> Credentials, file |-> NoSettings, data |-> NoData],
       [os |-> NoSettings, file |-> Credentials @@ Influx, data |-> NoData],
       [os |-> NoSettings, file |-> NoSettings, data |-> NoData] >>

(***************************************************************************)
(* main().                                                                 *)
(***************************************************************************)
Init ==
    /\ \E n \in 1..Len(Scenarios) :
         /\ environ = Scenarios[n].os
         /\ dotenv = Scenarios[n].file
         /\ config = ModuleConfig(Scenarios[n].os)
         /\ dataset = Scenarios[n].data
    /\ pc = "not_started"
    /\ idx = 0
    /\ api = NoApi
    /\ mr = Idle
    /\ all_points = <<>>
    /\ risk_score = 0
    /\ pem_risk = 0
    /\ faults = MaxRunFaults
    /\ issued = 0
    /\ gets = <<>>
    /\ refreshes = <<>>
    /\ calls = <<>>
    /\ sink = <<>>
    /\ first_fetch = "none"
    /\ outcome = "none"

\* load_environment_from_file: os.environ[key] = value for every line of .env
LoadEnvironment(env, file) == file @@ env

\* a validation that looks at the settings the module was loaded with
MissingVars_OfConfig(env) == {k \in CredKeys : config[k] = ""}

\* lines 423-424
MissingVars(env) == {k \in CredKeys : GetEnv(env, k, "") = ""}

\* lines 417-438: up to the first loop.  A run ends here by the return of line
\* 429 or by the ValueError of a constructor, which the handler of line 493 takes.
Initialize ==
    /\ pc = "not_started"
    /\ environ' = LoadEnvironment(environ, dotenv)
    /\ IF MissingVars(environ') # {}
       THEN /\ pc' = "rejected"
            /\ outcome' = "missing_vars"
            /\ UNCHANGED <<api, idx>>
       ELSE IF ~AllSet(NewApi(config)) \/ config.INFLUX_TOKEN = ""
       THEN /\ pc' = "aborted"
            /\ outcome' = "error"
            /\ UNCHANGED <<api, idx>>
       ELSE /\ api' = NewApi(config)
            /\ pc' = "daily"
            /\ idx' = 1
            /\ UNCHANGED outcome
    /\ UNCHANGED <<dotenv, config, mr, all_points, risk_score, pem_risk, faults,
                   issued, dataset, gets, refreshes, calls, sink, first_fetch>>

FetchPhases == {"daily", "intraday", "scoring", "summary"}

\* the arguments of the make_request call the run is at
Request(phase, i) ==
    CASE phase = "daily" -> [endpoint |-> DAILY_METRICS[i], detail_level |-> ""]
      [] phase = "intraday" -> [endpoint |-> IntradayEndpoint(INTRADAY_METRICS[i]),
                                detail_level |-> DetailLevel]
      [] OTHER -> [endpoint |-> PEM_ENDPOINTS[i], detail_level |-> ""]

\* lines 216, 320, 374, 381, 388: the processor calls make_request
Call ==
    /\ pc \in FetchPhases
    /\ mr.pc = "idle"
    /\ LET rq == Request(pc, idx) IN
         /\ mr' = Activation(rq.endpoint, Today, rq.detail_level, 0, 0)
         /\ calls' = Append(calls, [phase |-> pc, endpoint |-> rq.endpoint,
                                    detail_level |-> rq.detail_level,
                                    writes |-> Len(sink)])
    /\ gets' = <<>>
    /\ refreshes' = <<>>
    /\ UNCHANGED <<environ, dotenv, config, pc, idx, api, all_points, risk_score,
                   pem_risk, faults, issued, dataset, sink, first_fetch, outcome>>

\* how a fetch ended, from what it did: an exception that left make_request,
\* data, the None of a refresh that returned False, or the None of another failure
Ending(m, rf) ==
    IF m.pc = "raised" THEN "raised"
    ELSE IF ~m.result.none THEN "data"
    ELSE IF rf # <<>> /\ ~rf[Len(rf)].returned THEN "auth_failure"
    ELSE "fetch_failure"

FirstFetch == IF Len(calls) = 1 THEN Ending(mr, refreshes) ELSE first_fetch

\* a run that goes from its last intraday metric straight to the write
AfterIntraday_NoScoring(hc) == "writing"

\* where main goes after its last intraday metric, line 455
AfterIntraday(hc) == IF ScoringEnabled(hc) THEN "scoring" ELSE "writing"

\* lines 442-445: process_daily_summary returns, the batch is extended
DailyReturn ==
    /\ pc = "daily"
    /\ mr.pc = "returned"
    /\ all_points' = all_points \o
           process_daily_summary(DAILY_METRICS[idx], Today, mr.result,
                                 config.HEALTH_CONDITIONS)
    /\ IF idx < Len(DAILY_METRICS)
       THEN idx' = idx + 1 /\ pc' = "daily"
       ELSE idx' = 1 /\ pc' = "intraday"
    /\ mr' = Idle
    /\ first_fetch' = FirstFetch
    /\ UNCHANGED <<environ, dotenv, config, api, risk_score, pem_risk, faults,
                   issued, dataset, gets, refreshes, calls, sink, outcome>>

\* lines 449-455: process_intraday_data returns, the batch is extended
IntradayReturn ==
    /\ pc = "intraday"
    /\ mr.pc = "returned"
    /\ all_points' = all_points \o
           process_intraday_data(INTRADAY_METRICS[idx], Today, mr.result,
                                 config.HEALTH_CONDITIONS)
    /\ IF idx < Len(INTRADAY_METRICS)
       THEN idx' = idx + 1 /\ pc' = "intraday"
       ELSE idx' = 1 /\ pc' = AfterIntraday(config.HEALTH_CONDITIONS)
    /\ mr' = Idle
    /\ UNCHANGED <<environ, dotenv, config, api, risk_score, pem_risk, faults,
                   issued, dataset, gets, refreshes, calls, sink, first_fetch,
                   outcome>>

\* lines 493-503: an exception of make_request that leaves process_daily_summary
\* or process_intraday_data (which call it outside their try) ends the run
Escape ==
    /\ pc \in {"daily", "intraday"}
    /\ mr.pc = "raised"
    /\ pc' = "aborted"
    /\ outcome' = "error"
    /\ mr' = Idle
    /\ first_fetch' = FirstFetch
    /\ UNCHANGED <<environ, dotenv, config, idx, api, all_points, risk_score,
                   pem_risk, faults, issued, dataset, gets, refreshes, calls, sink>>

\* calculate_pem_risk returns score to main: line 457 with lines 459-466, or
\* line 480 with lines 481-503
PemDone(score) ==
    /\ pem_risk' = score
    /\ risk_score' = 0
    /\ idx' = 1
    /\ IF pc = "scoring"
       THEN /\ all_points' = Append(all_points, PemPoint(score, config.HEALTH_CONDITIONS))
            /\ pc' = "writing"
       ELSE /\ pc' = "done"
            /\ UNCHANGED all_points

\* calculate_pem_risk, lines 374-397: one of its three fetches returns
PemReturn ==
    /\ pc \in {"scoring", "summary"}
    /\ mr.pc = "returned"
    /\ LET step == PemStep(idx, mr.result) IN
         IF step.raised THEN PemDone(0)
         ELSE IF idx < Len(PEM_ENDPOINTS)
         THEN /\ risk_score' = risk_score + step.add
              /\ idx' = idx + 1
              /\ UNCHANGED <<pc, pem_risk, all_points>>
         ELSE PemDone(Min(risk_score + step.add, 100))
    /\ mr' = Idle
    /\ UNCHANGED <<environ, dotenv, config, api, faults, issued, dataset, gets,
                   refreshes, calls, sink, first_fetch, outcome>>

\* calculate_pem_risk, lines 399-401: an exception of make_request is caught
PemRaise ==
    /\ pc \in {"scoring", "summary"}
    /\ mr.pc = "raised"
    /\ PemDone(0)
    /\ mr' = Idle
    /\ UNCHANGED <<environ, dotenv, config, api, faults, issued, dataset, gets,
                   refreshes, calls, sink, first_fetch, outcome>>

\* what InfluxDB can answer to write_api.write
SinkAnswers == {TRUE, FALSE}

\* a writer that tries a failed write a second time
write_points_Retries(points, ok) ==
    IF Truthy(points)
    THEN IF ok THEN <<[record |-> points, ok |-> TRUE]>>
         ELSE <<[record |-> points, ok |-> FALSE], [record |-> points, ok |-> TRUE]>>
    ELSE <<>>

\* write_points, lines 199-204: the write_api.write calls it makes
write_points(points, ok) == IF Truthy(points) THEN <<[record |-> points, ok |-> ok]>> ELSE <<>>

\* a writer without the except clause
WritePointsRaises_NoCatch(points, ok) == Truthy(points) /\ ~ok

\* write_points, lines 199-204: whether an exception leaves it; the except
\* clause of line 203 takes whatever write_api.write raises
WritePointsRaises(points, ok) == FALSE

\* a run that goes back to fetching after the write
AfterWrite_FetchesAgain(hc) == IF ScoringEnabled(hc) THEN "scoring" ELSE "done"

\* where main goes after the summary header, line 479
AfterWrite(hc) == IF ScoringEnabled(hc) THEN "summary" ELSE "done"

\* lines 469-477 and 489-491 (and 493-503 for an exception of write_points)
Write ==
    /\ pc = "writing"
    /\ IF Truthy(all_points)
       THEN \E ok \in SinkAnswers :
              /\ sink' = sink \o write_points(all_points, ok)
              /\ IF WritePointsRaises(all_points, ok)
                 THEN outcome' = "error" /\ pc' = "aborted"
                 ELSE outcome' = "completed" /\ pc' = AfterWrite(config.HEALTH_CONDITIONS)
       ELSE /\ outcome' = "no_data"
            /\ pc' = "done"
            /\ UNCHANGED sink
    /\ UNCHANGED <<environ, dotenv, config, idx, api, mr, all_points, risk_score,
                   pem_risk, faults, issued, dataset, gets, refreshes, calls,
                   first_fetch>>

Next ==
    \/ Initialize
    \/ Call
    \/ Get
    \/ Refresh
    \/ GetRetry
    \/ DailyReturn
    \/ IntradayReturn
    \/ Escape
    \/ PemReturn
    \/ PemRaise
    \/ Write

Spec == Init /\ [][Next]_vars

(***************************************************************************)
(* One fetch on its own: make_request called once by a run that is at one  *)
(* of its metrics, against a remote API with MaxFetchFaults faults to give. *)
(***************************************************************************)
\* the places of a run the fetch is looked at: (phase, index, scenario)
FetchPlaces ==
    << [phase |-> "daily", idx |-> 1, scenario |-> 1],
       [phase |-> "daily", idx |-> 11, scenario |-> 2],
       [phase |-> "intraday", idx |-> 1, scenario |-> 2] >>

FetchInit ==
    /\ \E p \in 1..Len(FetchPlaces) :
         LET sc == Scenarios[FetchPlaces[p].scenario] IN
         /\ environ = LoadEnvironment(sc.os, sc.file)
         /\ dotenv = sc.file
         /\ config = ModuleConfig(sc.os)
         /\ dataset = sc.data
         /\ api = NewApi(ModuleConfig(sc.os))
         /\ pc = FetchPlaces[p].phase
         /\ idx = FetchPlaces[p].idx
    /\ mr = Idle
    /\ all_points = <<>>
    /\ risk_score = 0
    /\ pem_risk = 0
    /\ faults = MaxFetchFaults
    /\ issued = 0
    /\ gets = <<>>
    /\ refreshes = <<>>
    /\ calls = <<>>
    /\ sink = <<>>
    /\ first_fetch = "none"
    /\ outcome = "none"

FetchCall == calls = <<>> /\ Call

FetchNext ==
    \/ FetchCall
    \/ Get
    \/ Refresh
    \/ GetRetry

FetchSpec == FetchInit /\ [][FetchNext]_vars

(***************************************************************************)
(* Properties of one fetch (FetchSpec).                                    *)
(***************************************************************************)
\* the fetch is over: make_request has returned to the processor, or an
\* exception has left it
Ended == mr.pc \in {"returned", "raised"}

Is401(g) == ~g.exception /\ g.status = 401

Is200(g) == ~g.exception /\ g.status = 200

\* a 429 whose Retry-After is absent or a number of seconds
IsRateLimit(g) ==
    /\ ~g.exception
    /\ g.status = 429
    /\ ("Retry-After" \in DOMAIN g.headers => g.headers["Retry-After"] = "2")

GetsAt(d) == {i \in 1..Len(gets) : gets[i].depth = d}

RefreshesAt(d) == {i \in 1..Len(refreshes) : refreshes[i].depth = d}

FirstGetAt(d) == CHOOSE i \in GetsAt(d) : \A j \in GetsAt(d) : i <= j

\* C1 as stated: during one fetch, whatever the responses, refresh() is invoked
\* at most once, and exactly once when a 401 was received.
C1_RefreshAtMostOncePerFetch ==
    /\ Len(refreshes) <= 1
    /\ (Ended /\ \E i \in 1..Len(gets) : Is401(gets[i])) => Len(refreshes) = 1

\* C1 as amended: in every activation of make_request, refresh() is invoked at
\* most once, and it is invoked (once) exactly when the first response of that
\* activation is a 401; a fetch that is re-activated after 429s can therefore
\* invoke it once per activation.
C1_RefreshOncePerActivation ==
    \A d \in 0..mr.depth :
        /\ Cardinality(RefreshesAt(d)) <= 1
        /\ GetsAt(d) = {} => RefreshesAt(d) = {}
        /\ GetsAt(d) # {} =>
             (Is401(gets[FirstGetAt(d)])
                <=> (RefreshesAt(d) # {} \/ (mr.pc = "refresh" /\ mr.depth = d)))

\* a fetch that refreshed in two of its activations
C1_Witness == Ended /\ Len(refreshes) = 2 /\ RefreshesAt(0) # {} /\ RefreshesAt(1) # {}

\* the case of C2: the first response is a 401, the refresh succeeds and the
\* repeated request succeeds
C2_Case ==
    /\ mr.pc = "returned"
    /\ Len(gets) >= 2 /\ Is401(gets[1]) /\ Is200(gets[2])
    /\ Len(refreshes) >= 1 /\ refreshes[1].returned

\* C2: in that case the client has issued exactly two GETs of the same URL, the
\* first with the old access token and the second with the refreshed one, and
\* exactly one refresh; the Credentials hold the refreshed pair; the fetch returns
\* the data of the second response.
C2_RefreshThenRetry ==
    C2_Case =>
        /\ Len(gets) = 2
        /\ Len(refreshes) = 1
        /\ gets[1].url = gets[2].url
        /\ gets[1].token = refreshes[1].before.access_token
        /\ gets[2].token = MintedAccess(issued)
        /\ gets[2].token # gets[1].token
        /\ refreshes[1].sent = refreshes[1].before.refresh_token
        /\ api.access_token = MintedAccess(issued)
        /\ api.refresh_token = MintedRefresh(issued)
        /\ api.client_id = refreshes[1].before.client_id
        /\ api.client_secret = refreshes[1].before.client_secret
        /\ ~mr.result.none
        /\ mr.result.data = dataset[mr.endpoint]

C2_Witness == C2_Case /\ issued = 1 /\ gets[1].token = "access-0"

\* C3: refresh() is all-or-nothing: when it reports failure both tokens are what
\* they were before the call, when it reports success both are the new pair; no
\* call leaves exactly one of the two changed.
C3_RefreshAllOrNothing ==
    \A i \in 1..Len(refreshes) :
        LET r == refreshes[i] IN
        /\ ~r.returned => r.after = r.before
        /\ r.returned => /\ r.after.access_token # r.before.access_token
                         /\ r.after.refresh_token # r.before.refresh_token
        /\ (r.after.access_token = r.before.access_token)
             <=> (r.after.refresh_token = r.before.refresh_token)

\* the wait a 429 asks for, as C4 states it
AskedWait(g) == IF "Retry-After" \in DOMAIN g.headers THEN 2 ELSE 3600

\* C4: after a 429 with wait w (3600 when Retry-After is absent) the fetch
\* sleeps at least w and then issues the same request again; it does not end on
\* the 429; when the next response carries data the fetch returns that data.
C4_RateLimitWaitsAndRetries ==
    /\ \A i \in 1..Len(gets) :
         IsRateLimit(gets[i]) =>
            IF i = Len(gets)
            THEN mr.pc = "get" /\ mr.slept >= AskedWait(gets[i])
                 /\ Url(mr.endpoint, mr.date, mr.detail_level) = gets[i].url
            ELSE gets[i + 1].url = gets[i].url /\ gets[i + 1].slept >= AskedWait(gets[i])
    /\ (mr.pc = "returned" /\ Len(gets) >= 2 /\ IsRateLimit(gets[Len(gets) - 1])
          /\ Is200(gets[Len(gets)]))
         => ~mr.result.none /\ mr.result.data = dataset[mr.endpoint]

\* a fetch answered 429 without Retry-After, then 200
C4_Witness ==
    /\ mr.pc = "returned"
    /\ Len(gets) = 2
    /\ IsRateLimit(gets[1]) /\ "Retry-After" \notin DOMAIN gets[1].headers
    /\ Is200(gets[2]) /\ gets[2].slept = 3600
    /\ ~mr.result.none

\* C5: a fetch ends only on a response that is not a 429: when every response
\* so far was a 429 the call has not completed.
C5_EndsOnlyOnNon429 ==
    Ended => \E i \in 1..Len(gets) : gets[i].exception \/ gets[i].status # 429

(***************************************************************************)
(* Properties of a run (Spec).                                             *)
(***************************************************************************)
\* a transport error, or a status that is not 2xx, 401 or 429
IsHardFailure(g) == g.exception \/ (g.status >= 400 /\ g.status \notin {401, 429})

Phases(phase) == {i \in 1..Len(calls) : calls[i].phase = phase}

\* the endpoints of the fetches of a phase, in the order of the fetches
RECURSIVE EndpointsOf(_, _)
EndpointsOf(phase, n) ==
    IF n = 0 THEN <<>>
    ELSE IF calls[n].phase = phase
         THEN Append(EndpointsOf(phase, n - 1), calls[n].endpoint)
         ELSE EndpointsOf(phase, n - 1)

\* every configured metric has been fetched, once and in the configured order
AllMetricsFetched ==
    /\ EndpointsOf("daily", Len(calls)) = DAILY_METRICS
    /\ EndpointsOf("intraday", Len(calls))
         = [i \in 1..Len(INTRADAY_METRICS) |-> IntradayEndpoint(INTRADAY_METRICS[i])]

PastFetching == pc \in {"scoring", "writing", "summary", "done"}

\* the step that takes the result of a failed daily or intraday fetch
TakesFailure ==
    /\ pc \in {"daily", "intraday"}
    /\ mr.pc = "returned"
    /\ mr.result.none

\* C6: a fetch that meets a transport error or a non-2xx status other than
\* 401/429 makes no further request and returns a failure; the metric adds no
\* Point to the batch and the run goes on with the next metric, so that a run
\* past its fetch loops has fetched every configured metric.
C6_FailureIsNotRetried ==
    /\ [](mr.pc # "idle" =>
            \A i \in 1..Len(gets) :
               IsHardFailure(gets[i]) =>
                  i = Len(gets) /\ mr.pc = "returned" /\ mr.result.none)
    /\ [](PastFetching => AllMetricsFetched)
    /\ [][TakesFailure =>
            /\ all_points' = all_points
            /\ mr'.pc = "idle"
            /\ \/ pc' = pc /\ idx' = idx + 1
               \/ pc = "daily" /\ idx = Len(DAILY_METRICS) /\ pc' = "intraday" /\ idx' = 1
               \/ pc = "intraday" /\ idx = Len(INTRADAY_METRICS) /\ idx' = 1
                  /\ pc' \in {"scoring", "writing"}]_vars

\* a run that ended after its first fetch had failed on a server error
C6_Witness ==
    /\ pc = "done"
    /\ first_fetch = "fetch_failure"
    /\ AllMetricsFetched

\* C7 as stated: after an AuthFailure on the first fetch of a run no further
\* metric is fetched.
C7_AuthFailureAborts == first_fetch = "auth_failure" => Len(calls) = 1

\* the last response of the current fetch is a 429 whose Retry-After is no number
EndedOnBadRetryAfter ==
    /\ gets # <<>>
    /\ ~gets[Len(gets)].exception
    /\ gets[Len(gets)].status = 429
    /\ "Retry-After" \in DOMAIN gets[Len(gets)].headers
    /\ gets[Len(gets)].headers["Retry-After"] \notin {"2"}

\* C7 as amended: an AuthFailure on the first fetch does not abort the run: the
\* run goes on to the second metric and, when it gets past its fetch loops, has
\* fetched every configured metric.  A run that has begun to fetch is aborted
\* by nothing but a 429 whose Retry-After is not a number of seconds, received
\* in the daily or intraday loop.
C7_AuthFailureDoesNotAbort ==
    /\ first_fetch = "auth_failure" =>
         /\ Len(calls) = 1 => pc = "daily" /\ idx = 2 /\ mr.pc = "idle" /\ ENABLED Call
         /\ PastFetching => AllMetricsFetched
         /\ pc = "aborted" => Len(calls) > 1
    /\ (pc = "aborted" /\ calls # <<>>) =>
         /\ EndedOnBadRetryAfter
         /\ calls[Len(calls)].phase \in {"daily", "intraday"}

\* a run that ended normally after an AuthFailure on its first fetch
C7_Witness ==
    /\ first_fetch = "auth_failure"
    /\ pc = "done"
    /\ Len(calls) >= Len(DAILY_METRICS) + Len(INTRADAY_METRICS)

Written == pc \in {"summary", "done"}

\* C8 as stated: a run that has got through its writing phase has handed the
\* batch to the sink exactly once, also when the batch is empty.
C8_WrittenExactlyOnce == Written => Len(sink) = 1 /\ sink[1].record = all_points

\* C8 as amended: a run that has got through its writing phase has handed the
\* whole batch to the sink in one write and no second time, when the batch is
\* not empty, and has not called the sink at all when the batch is empty; no
\* write happens before the writing phase.
C8_WrittenOnceUnlessEmpty ==
    /\ Written =>
         IF all_points # <<>>
         THEN Len(sink) = 1 /\ sink[1].record = all_points
         ELSE sink = <<>> /\ outcome = "no_data"
    /\ ~Written => sink = <<>>

\* a run that ended after a failed write of a batch of several Points
C8_Witness ==
    /\ pc = "done"
    /\ Len(sink) = 1 /\ ~sink[1].ok
    /\ Len(all_points) > 1

SinkFailed == sink # <<>> /\ ~sink[1].ok

\* C9: a failed sink write is not propagated: the run is not aborted by it and
\* has reported completion; the write is not repeated, no daily, intraday or
\* scoring fetch follows it, and the run is done or can go on.
C9_SinkFailureIsSwallowed ==
    SinkFailed =>
        /\ pc \in {"summary", "done"}
        /\ outcome = "completed"
        /\ Len(sink) = 1
        /\ \A i \in 1..Len(calls) : calls[i].writes > 0 => calls[i].phase = "summary"
        /\ AllMetricsFetched
        /\ pc = "done" \/ ENABLED Next

C9_Witness == SinkFailed /\ pc = "done" /\ outcome = "completed"

PhaseRank(phase) ==
    CASE phase = "not_started" -> 0
      [] phase = "daily" -> 1
      [] phase = "intraday" -> 2
      [] phase = "scoring" -> 3
      [] phase = "writing" -> 4
      [] phase = "summary" -> 5
      [] OTHER -> 6

CallsInPhaseOrder ==
    \A i, j \in 1..Len(calls) :
        i < j => PhaseRank(calls[i].phase) <= PhaseRank(calls[j].phase)

\* C10 as stated: the fetches come in the order of the phases and every one of
\* them precedes the sink write.
C10_NoRequestAfterWrite ==
    /\ CallsInPhaseOrder
    /\ \A i \in 1..Len(calls) : calls[i].writes = 0

\* C10 as amended: a run goes through not started, fetching daily, fetching
\* intraday, (optional) scoring, writing, then, when long_covid or pem is enabled
\* and the batch is not empty, a second scoring pass for the printed summary,
\* then done, and never goes back; the fetches come in that order; the daily,
\* intraday and scoring fetches precede the sink write, and the only requests
\* after it are the three of the second scoring pass.
C10_PhasesInOrder ==
    /\ [](/\ CallsInPhaseOrder
          /\ calls # <<>> => PhaseRank(calls[Len(calls)].phase) <= PhaseRank(pc)
          /\ \A i \in 1..Len(calls) :
               IF calls[i].phase = "summary"
               THEN calls[i].writes = 1 /\ ScoringEnabled(config.HEALTH_CONDITIONS)
               ELSE calls[i].writes = 0
          /\ EndpointsOf("summary", Len(calls))
               = SubSeq(PEM_ENDPOINTS, 1, Cardinality(Phases("summary"))))
    /\ [][PhaseRank(pc) <= PhaseRank(pc')]_vars

\* a run that ended after the three fetches of its second scoring pass
C10_Witness == pc = "done" /\ Cardinality(Phases("summary")) = 3

(***************************************************************************)
(* Properties of the batch of a run (Spec).                                *)
(***************************************************************************)
\* the measurement names of the sources of the batch, in configuration order:
\* the daily metrics, the intraday metrics, the risk score
Measurements ==
    [i \in 1..Len(DAILY_METRICS) |-> Replace(DAILY_METRICS[i], "/", "_")]
    \o [i \in 1..Len(INTRADAY_METRICS) |->
           Replace(INTRADAY_METRICS[i], "/", "_") \o "_intraday"]
    \o <<"pem_risk">>

SourceOf(point) ==
    IF \E k \in 1..Len(Measurements) : Measurements[k] = point.measurement
    THEN CHOOSE k \in 1..Len(Measurements) : Measurements[k] = point.measurement
    ELSE 0

\* the Points of a batch that carry the measurement name m, in batch order
RECURSIVE Select(_, _, _)
Select(batch, m, n) ==
    IF n = 0 THEN <<>>
    ELSE IF batch[n].measurement = m
         THEN Append(Select(batch, m, n - 1), batch[n])
         ELSE Select(batch, m, n - 1)

\* the Points the k-th source gives when its fetch returns the account's data
Produced(k) ==
    IF k <= Len(DAILY_METRICS)
    THEN process_daily_summary(DAILY_METRICS[k], Today,
                               Some(dataset[DAILY_METRICS[k]]),
                               config.HEALTH_CONDITIONS)
    ELSE LET metric == INTRADAY_METRICS[k - Len(DAILY_METRICS)] IN
         process_intraday_data(metric, Today, Some(dataset[IntradayEndpoint(metric)]),
                               config.HEALTH_CONDITIONS)

RECURSIVE CountUpTo(_, _)
CountUpTo(batch, k) ==
    IF k = 0 THEN 0
    ELSE CountUpTo(batch, k - 1) + Len(Select(batch, Measurements[k], Len(batch)))

RiskPoints(batch) == Select(batch, "pem_risk", Len(batch))

\* C11: the batch handed to the sink is the Points of the daily metrics in
\* configuration order, then those of the intraday metrics in configuration
\* order (for each metric the Points its normalizer produced: those of the
\* fetched payload, or none when the fetch failed), then one risk-score Point
\* when long_covid or pem is enabled and none otherwise; the number of Points
\* is the sum of the per-metric numbers plus that 0 or 1.
C11_BatchIsConcatenation ==
    sink # <<>> =>
        LET batch == sink[1].record
            metrics == Len(DAILY_METRICS) + Len(INTRADAY_METRICS)
        IN /\ \A i \in 1..Len(batch) : SourceOf(batch[i]) # 0
           /\ \A i, j \in 1..Len(batch) :
                 i < j => SourceOf(batch[i]) <= SourceOf(batch[j])
           /\ \A k \in 1..metrics :
                 LET got == Select(batch, Measurements[k], Len(batch)) IN
                 got = <<>> \/ got = Produced(k)
           /\ Len(RiskPoints(batch))
                 = (IF ScoringEnabled(config.HEALTH_CONDITIONS) THEN 1 ELSE 0)
           /\ Len(batch) = CountUpTo(batch, metrics) + Len(RiskPoints(batch))

\* a finished run whose batch had Points of six daily metrics and one intraday
\* metric, and the risk-score Point after them
C11_Witness ==
    /\ pc = "done"
    /\ sink # <<>>
    /\ Len(sink[1].record) = 8
    /\ sink[1].record[8].measurement = "pem_risk"
    /\ sink[1].record[7].measurement = "activities_heart_intraday"

(***************************************************************************)
(* calculate_pem_risk on its own: the first scoring pass of a run whose     *)
(* account holds one of the payload combinations below, against a remote   *)
(* API with MaxScoreFaults faults to give.                                  *)
(***************************************************************************)
MaxScoreFaults == 1

HeartRecord(value) == [x \in {"activities-heart"} |-> << [dateTime |-> Today, value |-> value] >>]

\* what the account can hold for activities/heart
HeartPayloads ==
    << <<>>,
       HeartRecord([restingHeartRate |-> 110]),
       HeartRecord([restingHeartRate |-> 100]),
       HeartRecord([restingHeartRate |-> 80]),
       HeartRecord([heartRateZones |-> <<>>]),
       [x \in {"activities-heart"} |-> << [dateTime |-> Today] >>] >>

\* what the account can hold for activities/steps
StepsPayloads ==
    << <<>>,
       [x \in {"activities-steps"} |-> << [dateTime |-> Today, value |-> 6000] >>],
       [x \in {"activities-steps"} |-> << [dateTime |-> Today, value |-> 5000] >>],
       [x \in {"activities-steps"} |-> << [dateTime |-> Today, value |-> 1000] >>],
       [x \in {"activities-steps"} |-> << [dateTime |-> Today] >>] >>

HrvRecord(value) == [dateTime |-> Today, value |-> value]

\* what the account can hold for hrv
HrvPayloads ==
    << <<>>,
       [hrv |-> << HrvRecord([dailyRmssd |-> 15]) >>],
       [hrv |-> << HrvRecord([dailyRmssd |-> 20]) >>],
       [hrv |-> << HrvRecord([dailyRmssd |-> 40]) >>],
       [hrv |-> << HrvRecord(<<>>), HrvRecord([dailyRmssd |-> 15]) >>],
       [hrv |-> << HrvRecord([dailyRmssd |-> 40]), HrvRecord([dailyRmssd |-> 15]) >>],
       [hrv |-> << HrvRecord([deepRmssd |-> 30]) >>] >>

ScoreInit ==
    /\ \E h \in 1..Len(HeartPayloads), s \in 1..Len(StepsPayloads),
          v \in 1..Len(HrvPayloads) :
         dataset = Entry("activities/heart", HeartPayloads[h])
                   @@ Entry("activities/steps", StepsPayloads[s])
                   @@ Entry("hrv", HrvPayloads[v]) @@ NoData
    /\ environ = Scenarios[1].os
    /\ dotenv = Scenarios[1].file
    /\ config = ModuleConfig(Scenarios[1].os)
    /\ api = NewApi(ModuleConfig(Scenarios[1].os))
    /\ pc = "scoring"
    /\ idx = 1
    /\ mr = Idle
    /\ all_points = <<>>
    /\ risk_score = 0
    /\ pem_risk = 0
    /\ faults = MaxScoreFaults
    /\ issued = 0
    /\ gets = <<>>
    /\ refreshes = <<>>
    /\ calls = <<>>
    /\ sink = <<>>
    /\ first_fetch = "none"
    /\ outcome = "none"

ScoreNext ==
    \/ Call
    \/ Get
    \/ Refresh
    \/ GetRetry
    \/ PemReturn
    \/ PemRaise

ScoreSpec == ScoreInit /\ [][ScoreNext]_vars

(***************************************************************************)
(* Properties of the risk score (ScoreSpec).                               *)
(***************************************************************************)
\* the first record of a payload's list, when it has one
HasFirst(data, key) == key \in DOMAIN data /\ data[key] # <<>>

\* the resting heart rate the account holds, if any
HasRestingHeartRate ==
    LET data == dataset["activities/heart"] IN
    /\ HasFirst(data, "activities-heart")
    /\ "value" \in DOMAIN data["activities-heart"][1]
    /\ "restingHeartRate" \in DOMAIN data["activities-heart"][1]["value"]

RestingHeartRate == dataset["activities/heart"]["activities-heart"][1]["value"]["restingHeartRate"]

\* the step count the account holds, if any
HasStepCount ==
    LET data == dataset["activities/steps"] IN
    HasFirst(data, "activities-steps") /\ "value" \in DOMAIN data["activities-steps"][1]

StepCount == dataset["activities/steps"]["activities-steps"][1]["value"]

\* the HRV records with a non-empty value block
ValuedHrv ==
    LET data == dataset["hrv"] IN
    IF "hrv" \in DOMAIN data
    THEN {i \in 1..Len(data["hrv"]) :
             "value" \in DOMAIN data["hrv"][i] /\ data["hrv"][i]["value"] # <<>>}
    ELSE {}

FirstValuedHrv == dataset["hrv"]["hrv"][CHOOSE i \in ValuedHrv : \A j \in ValuedHrv : i <= j]

\* the daily RMSSD of the first such record, if any
HasDailyRmssd == ValuedHrv # {} /\ "dailyRmssd" \in DOMAIN FirstValuedHrv["value"]

DailyRmssd == FirstValuedHrv["value"]["dailyRmssd"]

\* the heart payload has a first record without the value block the code subscripts
HeartRecordBroken ==
    LET data == dataset["activities/heart"] IN
    HasFirst(data, "activities-heart") /\ "value" \notin DOMAIN data["activities-heart"][1]

HeartTerm == IF HasRestingHeartRate /\ RestingHeartRate > 100 THEN 30 ELSE 0
StepsTerm == IF HasStepCount /\ StepCount > 5000 THEN 25 ELSE 0
HrvTerm   == IF HasDailyRmssd /\ DailyRmssd < 20 THEN 45 ELSE 0

\* the first scoring pass is over and every one of its fetches got its data
ScoredAllFetched == pc = "writing" /\ faults = MaxScoreFaults

\* C12: the score is in 0..100 and, when the three values were fetched, it is
\* min(100, 30 if resting heart rate > 100, + 25 if the first steps record's
\* value > 5000, + 45 if the daily RMSSD of the first HRV record with a
\* non-empty value block < 20); HRV records after that one are not examined;
\* (110, 6000, 15) gives 100 and (80, 1000, 40) gives 0.
C12_ScoreIsWeightedSum ==
    /\ pem_risk \in 0..100
    /\ risk_score \in 0..100
    /\ (ScoredAllFetched /\ ~HeartRecordBroken /\ (ValuedHrv # {} => HasDailyRmssd)) =>
         /\ pem_risk = Min(100, HeartTerm + StepsTerm + HrvTerm)
         /\ (HasRestingHeartRate /\ HasStepCount /\ HasDailyRmssd) =>
              /\ (RestingHeartRate = 110 /\ StepCount = 6000 /\ DailyRmssd = 15)
                    => pem_risk = 100
              /\ (RestingHeartRate = 80 /\ StepCount = 1000 /\ DailyRmssd = 40)
                    => pem_risk = 0

\* the score of an account with resting heart rate 110, 6000 steps and a first
\* valued HRV record of daily RMSSD 40 followed by one of 15
C12_Witness ==
    /\ ScoredAllFetched
    /\ HasRestingHeartRate /\ RestingHeartRate = 110
    /\ HasStepCount /\ StepCount = 6000
    /\ Cardinality(ValuedHrv) = 2 /\ DailyRmssd = 40
    /\ pem_risk = 55

\* the step that takes the result of a failed fetch of the first scoring pass
TakesFailedInput == pc = "scoring" /\ mr.pc = "returned" /\ mr.result.none

\* C13: an input of the score (resting heart rate, step count, daily RMSSD)
\* whose fetch failed or whose field is missing adds 0 to the score and the
\* other two add what their values give; no exception leaves the calculation.
C13_MissingInputAddsNothing ==
    /\ [](ScoredAllFetched => pem_risk = Min(100, HeartTerm + StepsTerm + HrvTerm))
    /\ [][TakesFailedInput =>
            IF idx < Len(PEM_ENDPOINTS)
            THEN risk_score' = risk_score /\ idx' = idx + 1 /\ pc' = pc
            ELSE pem_risk' = Min(100, risk_score) /\ pc' = "writing"]_vars
    /\ [](pc # "aborted")

(***************************************************************************)
(* The normalizers on their own: one metric of a run fetched and handed to *)
(* process_daily_summary or process_intraday_data, for payloads of up to   *)
(* MaxRecords records drawn from the record shapes below.                  *)
(***************************************************************************)
MaxRecords == 2

\* sleep sessions: complete, bare, a nap, without a date, with a date that does
\* not parse, a nap without a date
Sessions ==
    << [dateOfSleep |-> "2024-01-14", isMainSleep |-> TRUE, efficiency |-> 90,
        minutesAsleep |-> 400, minutesAwake |-> 30, timeInBed |-> 430],
       [dateOfSleep |-> Today],
       [dateOfSleep |-> Today, isMainSleep |-> FALSE, efficiency |-> 50],
       [efficiency |-> 70],
       [dateOfSleep |-> "yesterday", efficiency |-> 60],
       [isMainSleep |-> FALSE] >>

\* HRV records: value blocks with lf and hf present, zero or absent, an empty
\* value block, no value block, a value block without a date
HrvRecords ==
    << HrvRecord([dailyRmssd |-> 15, deepRmssd |-> 12, lf |-> 6, hf |-> 3]),
       HrvRecord([dailyRmssd |-> 30, lf |-> 3, hf |-> 2]),
       HrvRecord([dailyRmssd |-> 30, lf |-> 3, hf |-> 0]),
       HrvRecord([dailyRmssd |-> 30, lf |-> 0, hf |-> 0]),
       HrvRecord([dailyRmssd |-> 30, hf |-> 0]),
       HrvRecord([dailyRmssd |-> 30, lf |-> 3]),
       HrvRecord([dailyRmssd |-> 30]),
       HrvRecord(<<>>),
       [dateTime |-> Today],
       [value |-> [dailyRmssd |-> 30, lf |-> 3, hf |-> 2]] >>

\* records of the metrics without a rule of their own
GenericRecords ==
    << [dateTime |-> Today, value |-> 70],
       [dateTime |-> "2024-01-14", value |-> 0],
       [dateTime |-> Today],
       [value |-> 5],
       [dateTime |-> "today", value |-> 5] >>

Spo2Records ==
    << [dateTime |-> Today, value |-> [avg |-> 96, min |-> 93, max |-> 99]],
       [dateTime |-> Today, value |-> [avg |-> 95]],
       [dateTime |-> Today],
       [value |-> [avg |-> 96]] >>

IntradayEntries ==
    << [time |-> "00:01:00", value |-> 61],
       [time |-> "00:02:00"],
       [time |-> "24:00:00", value |-> 5] >>

\* the k records a payload's list holds, drawn from shapes by f
Drawn(shapes, k, f) == [i \in 1..k |-> shapes[f[i]]]

MetricIndex(metrics, metric) == CHOOSE i \in 1..Len(metrics) : metrics[i] = metric

SpecialMetrics == {"activities/heart", "sleep", "hrv", "spo2"}

GenericMetrics == {i \in 1..Len(DAILY_METRICS) : DAILY_METRICS[i] \notin SpecialMetrics}

\* (phase, index of the metric, payload of its endpoint)
NormalizeInputs(phase, i, payload) ==
    /\ pc = phase
    /\ idx = i
    /\ dataset = Entry(Request(phase, i).endpoint, payload) @@ NoData

NormalizeInit ==
    /\ \E sc \in {1, 3} :
         /\ environ = LoadEnvironment(Scenarios[sc].os, Scenarios[sc].file)
         /\ dotenv = Scenarios[sc].file
         /\ config = ModuleConfig(Scenarios[sc].os)
         /\ api = NewApi(ModuleConfig(Scenarios[sc].os))
    /\ \E k \in 0..MaxRecords :
         \/ \E f \in [1..k -> 1..Len(Sessions)] :
               NormalizeInputs("daily", MetricIndex(DAILY_METRICS, "sleep"),
                               [sleep |-> Drawn(Sessions, k, f)])
         \/ \E f \in [1..k -> 1..Len(HrvRecords)] :
               NormalizeInputs("daily", MetricIndex(DAILY_METRICS, "hrv"),
                               [hrv |-> Drawn(HrvRecords, k, f)])
         \/ \E f \in [1..k -> 1..Len(Spo2Records)] :
               NormalizeInputs("daily", MetricIndex(DAILY_METRICS, "spo2"),
                               [spo2 |-> Drawn(Spo2Records, k, f)])
         \/ \E f \in [1..k -> 1..Len(GenericRecords)], i \in GenericMetrics :
               \/ NormalizeInputs("daily", i,
                      Entry(LastSegment(DAILY_METRICS[i], "/"),
                            Drawn(GenericRecords, k, f)))
               \/ NormalizeInputs("daily", i,
                      Entry(Replace(DAILY_METRICS[i], "/", "-"),
                            Drawn(GenericRecords, k, f)))
         \/ \E h \in 1..Len(HeartPayloads) :
               /\ k = 0
               /\ NormalizeInputs("daily", MetricIndex(DAILY_METRICS, "activities/heart"),
                                  HeartPayloads[h])
         \/ \E f \in [1..k -> 1..Len(IntradayEntries)], i \in 1..2 :
               \/ NormalizeInputs("intraday", i,
                      Entry(Replace(INTRADAY_METRICS[i], "/", "-") \o "-intraday",
                            [dataset |-> Drawn(IntradayEntries, k, f)]))
               \/ /\ k = 0
                  /\ NormalizeInputs("intraday", i,
                         Entry(Replace(INTRADAY_METRICS[i], "/", "-") \o "-intraday",
                               [datasetInterval |-> 1]))
    /\ mr = Idle
    /\ all_points = <<>>
    /\ risk_score = 0
    /\ pem_risk = 0
    /\ faults = 0
    /\ issued = 0
    /\ gets = <<>>
    /\ refreshes = <<>>
    /\ calls = <<>>
    /\ sink = <<>>
    /\ first_fetch = "none"
    /\ outcome = "none"

NormalizeNext ==
    \/ FetchCall
    \/ Get
    \/ DailyReturn
    \/ IntradayReturn

NormalizeSpec == NormalizeInit /\ [][NormalizeNext]_vars

(***************************************************************************)
(* Properties of the normalizers (NormalizeSpec).                          *)
(***************************************************************************)
\* the metric has been fetched and normalized, its Points are the batch
Normalized == calls # <<>> /\ mr.pc = "idle"

\* the payload that was normalized
Payload == dataset[calls[1].endpoint]

\* the list a payload holds under key, or no records
ListOf(key) == IF key \in DOMAIN Payload THEN Payload[key] ELSE <<>>

DailyMetric == calls[1].endpoint

NormalizedIs(metric) == Normalized /\ calls[1].phase = "daily" /\ DailyMetric = metric

\* an exception was raised, and caught, while the payload was normalized
NormalizeRaised ==
    IF calls[1].phase = "daily"
    THEN NormalizeDaily(DailyMetric, Today, Payload, config.HEALTH_CONDITIONS).raised
    ELSE \E i \in 1..Len(INTRADAY_METRICS) :
            /\ IntradayEndpoint(INTRADAY_METRICS[i]) = calls[1].endpoint
            /\ NormalizeIntraday(INTRADAY_METRICS[i], Today, Payload,
                                 config.HEALTH_CONDITIONS).raised

\* C14: the normalizers raise nothing to the run, which goes on with the next
\* metric, and a metric whose normalization met an internal error gives the
\* empty sequence: it adds no Point to the batch.
C14_ErrorYieldsNoPoints ==
    Normalized =>
        /\ pc \in {"daily", "intraday", "scoring", "writing"}
        /\ NormalizeRaised => all_points = <<>>

\* the k-th smallest element of a set of numbers
Nth(S, k) == CHOOSE i \in S : Cardinality({j \in S : j < i}) = k - 1

\* the index of the first record of recs that is bad, or one past the last
FirstBad(recs, Bad(_)) ==
    IF \E i \in 1..Len(recs) : Bad(recs[i])
    THEN CHOOSE i \in 1..Len(recs) : Bad(recs[i]) /\ \A j \in 1..(i - 1) : ~Bad(recs[j])
    ELSE Len(recs) + 1

HasDate(rec, key) == key \in DOMAIN rec /\ IsDate(rec[key])

\* a session the sleep rule takes: isMainSleep true, or absent
IsMainSession(s) == "isMainSleep" \notin DOMAIN s \/ s["isMainSleep"] = TRUE

WellFormedSession(s) == HasDate(s, "dateOfSleep")

BrokenSession(s) == IsMainSession(s) /\ ~WellFormedSession(s)

FieldOr0(rec, key) == IF key \in DOMAIN rec THEN rec[key] ELSE 0

\* C15 as stated: the sleep rule emits one Point for each well-formed session
\* whose isMainSleep is true or absent, whatever the other sessions are.
C15_OnePointPerMainSession ==
    NormalizedIs("sleep") =>
        Len(all_points)
          = Cardinality({i \in 1..Len(ListOf("sleep")) :
                            /\ IsMainSession(ListOf("sleep")[i])
                            /\ WellFormedSession(ListOf("sleep")[i])})

\* C15 as amended: the sleep rule emits, in payload order, one Point for each
\* session whose isMainSleep is true or absent and that comes before the first
\* such session without a date that parses (for each of them when there is no
\* such session), and none for any other session, so none for a session whose
\* isMainSleep is false; each Point has the session's own date as its time and
\* the fields efficiency, minutes_asleep, minutes_awake and time_in_bed, 0 when
\* the session lacks them.
C15_OnePointPerMainSessionBeforeError ==
    NormalizedIs("sleep") =>
        LET recs == ListOf("sleep")
            kept == {i \in 1..(FirstBad(recs, BrokenSession) - 1) : IsMainSession(recs[i])}
        IN /\ Len(all_points) = Cardinality(kept)
           /\ \A k \in 1..Len(all_points) :
                 LET s == recs[Nth(kept, k)]
                     p == all_points[k]
                 IN /\ p.measurement = "sleep"
                    /\ p.time = s["dateOfSleep"]
                    /\ DOMAIN p.fields = {"efficiency", "minutes_asleep",
                                          "minutes_awake", "time_in_bed"}
                    /\ p.fields["efficiency"] = FieldOr0(s, "efficiency")
                    /\ p.fields["minutes_asleep"] = FieldOr0(s, "minutesAsleep")
                    /\ p.fields["minutes_awake"] = FieldOr0(s, "minutesAwake")
                    /\ p.fields["time_in_bed"] = FieldOr0(s, "timeInBed")

\* a dated nap followed by a bare main session: one Point, of the second
\* session, with 0 in its fields
C15_Witness ==
    /\ NormalizedIs("sleep")
    /\ Len(ListOf("sleep")) = 2
    /\ ~IsMainSession(ListOf("sleep")[1])
    /\ "dateOfSleep" \in DOMAIN ListOf("sleep")[1]
    /\ IsMainSession(ListOf("sleep")[2])
    /\ Len(all_points) = 1
    /\ all_points[1].fields["efficiency"] = 0

\* a record the HRV rule takes: one with a non-empty value block
IsValuedRecord(r) == "value" \in DOMAIN r /\ r["value"] # <<>>

BrokenValuedRecord(r) == IsValuedRecord(r) /\ ~HasDate(r, "dateTime")

\* C16: for every HRV record with a non-empty value block the rule gets to,
\* the Point is emitted (no division error stops the rule) and its lf_hf_ratio
\* is 0 when hf is 0, lf (0 when lf is absent) when hf is absent, hf being taken
\* as 1, and lf / hf otherwise.
C16_RatioGuardsZero ==
    NormalizedIs("hrv") =>
        LET recs == ListOf("hrv")
            kept == {i \in 1..(FirstBad(recs, BrokenValuedRecord) - 1) :
                        IsValuedRecord(recs[i])}
        IN /\ Len(all_points) = Cardinality(kept)
           /\ \A k \in 1..Len(all_points) :
                 LET value == recs[Nth(kept, k)]["value"]
                     lf == FieldOr0(value, "lf")
                     ratio == all_points[k].fields["lf_hf_ratio"]
                 IN /\ ratio.den # 0
                    /\ all_points[k].fields["lf"] = lf
                    /\ IF "hf" \notin DOMAIN value
                       THEN /\ all_points[k].fields["hf"] = 1
                            /\ ratio.num = lf * ratio.den
                       ELSE IF value["hf"] = 0
                       THEN ratio.num = 0
                       ELSE ratio.num * value["hf"] = lf * ratio.den

\* two HRV records, the first with hf 0 and lf 3, the second without hf: the
\* ratios are 0 and the second record's lf
C16_Witness ==
    /\ NormalizedIs("hrv")
    /\ Len(all_points) = 2
    /\ "hf" \in DOMAIN ListOf("hrv")[1]["value"]
    /\ ListOf("hrv")[1]["value"]["hf"] = 0
    /\ all_points[1].fields["lf"] = 3
    /\ all_points[1].fields["lf_hf_ratio"].num = 0
    /\ "hf" \notin DOMAIN ListOf("hrv")[2]["value"]
    /\ all_points[2].fields["lf_hf_ratio"].num = 3

NormalizedGeneric ==
    Normalized /\ calls[1].phase = "daily" /\ DailyMetric \notin SpecialMetrics

\* the part of a metric name after its last '/'
TrailingSegment(metric) ==
    CHOOSE key \in {SubSeq(metric, i, Len(metric)) : i \in 1..Len(metric)} :
        /\ ~Contains(key, "/")
        /\ Len(key) = Len(metric) \/ SubSeq(metric, Len(metric) - Len(key), Len(metric) - Len(key)) = "/"

\* name is metric with every '/' replaced by '_'
IsMeasurementOf(name, metric) ==
    /\ Len(name) = Len(metric)
    /\ \A j \in 1..Len(metric) :
          SubSeq(name, j, j) = (IF SubSeq(metric, j, j) = "/" THEN "_" ELSE SubSeq(metric, j, j))

\* a record the generic rule takes: one with a date key and a value key
HasDateAndValue(r) == "dateTime" \in DOMAIN r /\ "value" \in DOMAIN r

BrokenDatedRecord(r) == HasDateAndValue(r) /\ ~IsDate(r["dateTime"])

\* the Points are those of the records kept, in order, by the generic rule
GenericPointsOf(recs, kept) ==
    /\ Len(all_points) = Cardinality(kept)
    /\ \A k \in 1..Len(all_points) :
          LET r == recs[Nth(kept, k)]
              p == all_points[k]
          IN /\ IsMeasurementOf(p.measurement, DailyMetric)
             /\ DOMAIN p.fields = {"value"}
             /\ p.fields["value"] = r["value"]
             /\ p.time = r["dateTime"]
             /\ p.tags = NoTags

\* C17 as stated: for a metric without a rule of its own, the payload key is
\* the metric's trailing path segment and there is one Point for each record
\* with both a date key and a value key, none for a record lacking either and
\* none when the payload lacks the key.
C17_OnePointPerRecord ==
    NormalizedGeneric =>
        LET recs == ListOf(TrailingSegment(DailyMetric)) IN
        GenericPointsOf(recs, {i \in 1..Len(recs) : HasDateAndValue(recs[i])})

\* C17 as amended: for a metric without a rule of its own, the payload key is
\* the metric's trailing path segment and there is, in payload order, one Point
\* (field value, the record's own date, measurement the metric name with '_'
\* for '/') for each record with both a date key and a value key that comes
\* before the first such record whose date does not parse; none for any other
\* record, and none when the payload lacks the key.
C17_OnePointPerRecordBeforeError ==
    NormalizedGeneric =>
        LET recs == ListOf(TrailingSegment(DailyMetric)) IN
        GenericPointsOf(recs, {i \in 1..(FirstBad(recs, BrokenDatedRecord) - 1) :
                                  HasDateAndValue(recs[i])})

\* active-zone-minutes with a record without a value and a complete record:
\* one Point, of the second record
C17_Witness ==
    /\ NormalizedGeneric
    /\ DailyMetric = "activities/active-zone-minutes"
    /\ Len(ListOf("active-zone-minutes")) = 2
    /\ ~HasDateAndValue(ListOf("active-zone-minutes")[1])
    /\ Len(all_points) = 1
    /\ all_points[1].measurement = "activities_active-zone-minutes"
    /\ all_points[1].fields["value"] = 70

(***************************************************************************)
(* Properties of the Points, the flags and the Credentials of a run (Spec). *)
(***************************************************************************)
IsPoint(p) == p.measurement # "" /\ DOMAIN p.fields # {}

\* C18: every Point of the batch, and of what was handed to the sink, has a
\* measurement name that is not empty and at least one field.
C18_PointsHaveNameAndField ==
    /\ \A i \in 1..Len(all_points) : IsPoint(all_points[i])
    /\ \A w \in 1..Len(sink) : \A i \in 1..Len(sink[w].record) : IsPoint(sink[w].record[i])

\* a batch about to be written with Points of the heart, sleep, hrv, spo2 and
\* generic rules, of the intraday rule, and the risk-score Point
C18_Witness ==
    /\ pc = "writing"
    /\ \A m \in {"activities_heart", "sleep", "hrv", "spo2", "body_weight",
                 "activities_heart_intraday", "pem_risk"} :
          \E i \in 1..Len(all_points) : all_points[i].measurement = m

Flags == DOMAIN ConditionEnv

\* the flag has no setting in the configuration
FlagAbsent(c) == ConditionEnv[c] \notin DOMAIN environ

\* the measurements whose Points the rules tag with the enabled flags
TaggedMeasurements == {"activities_heart", "sleep", "hrv", "activities_heart_intraday"}

MetricPoints == {i \in 1..Len(all_points) : all_points[i].measurement # "pem_risk"}

ScoringCalls == {i \in 1..Len(calls) : calls[i].phase \in {"scoring", "summary"}}

HasRiskPoint == \E i \in 1..Len(all_points) : all_points[i].measurement = "pem_risk"

\* C19 as stated: a flag without a setting is disabled: no Point is tagged with
\* it, and with long_covid and pem both without a setting the run computes no
\* risk score and appends no risk-score Point.
C19_AbsentFlagIsDisabled ==
    /\ \A c \in Flags :
          FlagAbsent(c) =>
             \A i \in MetricPoints : c \notin DOMAIN all_points[i].tags
    /\ (FlagAbsent("long_covid") /\ FlagAbsent("pem")) =>
          ScoringCalls = {} /\ ~HasRiskPoint

\* C19 as amended: a flag without a setting is enabled: every Point of the
\* heart, sleep, hrv and intraday heart rules is tagged with it, and with
\* long_covid or pem without a setting the run computes the risk score and has
\* a risk-score Point in its batch when it gets to the write.  A flag is
\* disabled only by a setting that is not 'true' in any case of letters, and
\* then no metric Point is tagged with it.
C19_AbsentFlagIsEnabled ==
    \A c \in Flags :
       /\ FlagAbsent(c) =>
             /\ config.HEALTH_CONDITIONS[c]
             /\ \A i \in MetricPoints :
                   all_points[i].measurement \in TaggedMeasurements =>
                      c \in DOMAIN all_points[i].tags /\ all_points[i].tags[c] = "true"
             /\ (c \in {"long_covid", "pem"} /\ pc \in {"writing", "summary", "done"}) =>
                   HasRiskPoint /\ ScoringCalls # {}
       /\ ~FlagAbsent(c) =>
             /\ config.HEALTH_CONDITIONS[c] <=> Lower(environ[ConditionEnv[c]]) = "true"
             /\ ~config.HEALTH_CONDITIONS[c] =>
                   \A i \in MetricPoints : c \notin DOMAIN all_points[i].tags

\* a finished run without any flag setting whose sleep Point carries the five
\* tags and whose batch ends with the risk-score Point
C19_Witness ==
    /\ pc = "done"
    /\ \A c \in Flags : FlagAbsent(c)
    /\ \E i \in MetricPoints :
          all_points[i].measurement = "sleep" /\ DOMAIN all_points[i].tags = Flags
    /\ HasRiskPoint
    /\ sink # <<>>

No401 == \A i \in 1..Len(gets) : ~Is401(gets[i])

\* C20: the Credentials of the client change only in a refresh, which follows
\* a 401: a fetch whose responses include no 401 (a success, 429s followed by
\* retries, any other failure) makes no refresh and sends the token the client
\* holds; the steps of the normalizers, of the risk score and of the sink write
\* leave the four Credentials as they are; client_id and client_secret never
\* change; the flag set never changes.
C20_OnlyRefreshMutatesCredentials ==
    /\ []((mr.pc # "idle" /\ No401) =>
             /\ refreshes = <<>>
             /\ \A i \in 1..Len(gets) : gets[i].token = api.access_token)
    /\ [][/\ config' = config
          /\ pc # "not_started" =>
                /\ api'.client_id = api.client_id
                /\ api'.client_secret = api.client_secret
                /\ api' # api =>
                      /\ mr.pc = "refresh"
                      /\ gets # <<>> /\ Is401(gets[Len(gets)])
                      /\ Len(refreshes') = Len(refreshes) + 1
                      /\ pc' = pc /\ all_points' = all_points /\ sink' = sink]_vars

\* a finished run one of whose fetches refreshed the tokens: the minted pair is
\* still the client's after the later fetches, the scoring and the write
C20_Witness ==
    /\ pc = "done"
    /\ sink # <<>>
    /\ issued = 1
    /\ api = [NewApi(config) EXCEPT !.access_token = MintedAccess(1),
                                    !.refresh_token = MintedRefresh(1)]

(***************************************************************************)
(* The start of a run on its own: the module is loaded with one os.environ, *)
(* main() loads one .env file, validates and constructs its components.    *)
(* Every required setting is in the environment, in the file, in both or   *)
(* in neither; a value of the file differs from the value of the           *)
(* environment.                                                            *)
(***************************************************************************)
SettingKeys == CredKeys \cup {"INFLUX_TOKEN"}

Placements == {"neither", "os", "file", "both"}

OsValue(k) == (Credentials @@ Influx)[k]

FileValue(k) == (Credentials @@ Influx)[k] \o "-env"

\* a HEALTH_PEM setting, or none
FlagSettings == << <<>>, [HEALTH_PEM |-> "true"], [HEALTH_PEM |-> "false"] >>

LoadInit ==
    /\ \E place \in [SettingKeys -> Placements],
          fo \in 1..Len(FlagSettings), ff \in 1..Len(FlagSettings) :
         LET os == [k \in {x \in SettingKeys : place[x] \in {"os", "both"}} |-> OsValue(k)]
                   @@ FlagSettings[fo]
             file == [k \in {x \in SettingKeys : place[x] \in {"file", "both"}} |-> FileValue(k)]
                     @@ FlagSettings[ff]
         IN /\ environ = os
            /\ dotenv = file
            /\ config = ModuleConfig(os)
    /\ dataset = NoData
    /\ pc = "not_started"
    /\ idx = 0
    /\ api = NoApi
    /\ mr = Idle
    /\ all_points = <<>>
    /\ risk_score = 0
    /\ pem_risk = 0
    /\ faults = 0
    /\ issued = 0
    /\ gets = <<>>
    /\ refreshes = <<>>
    /\ calls = <<>>
    /\ sink = <<>>
    /\ first_fetch = "none"
    /\ outcome = "none"

LoadNext == Initialize

LoadSpec == LoadInit /\ [][LoadNext]_vars

(***************************************************************************)
(* Properties of the start of a run (LoadSpec).                            *)
(***************************************************************************)
\* the value of a setting in an environment, '' when it is not set
Setting(env, k) == IF k \in DOMAIN env THEN env[k] ELSE ""

\* the client main() would construct from an environment
ClientOf(env) ==
    [client_id     |-> Setting(env, "FITBIT_CLIENT_ID"),
     client_secret |-> Setting(env, "FITBIT_CLIENT_SECRET"),
     access_token  |-> Setting(env, "FITBIT_ACCESS_TOKEN"),
     refresh_token |-> Setting(env, "FITBIT_REFRESH_TOKEN")]

\* the step of main() from its start to its first loop
Starts == pc = "not_started" /\ pc' # "not_started"

\* C21: the credentials and the flags of a run are those of the environment
\* the module was loaded with and are not changed by the .env file that main()
\* loads afterwards; the validation of main() reads the environment after the
\* file was loaded.  A setting that is only in the file passes the validation
\* but is not what the client is constructed with nor what decides the tags:
\* a run whose four credentials are only in the file ends at the construction
\* of the client with an error, and makes no fetch and no sink write.
C21_ConfigurationFixedAtLoad ==
    /\ [](pc = "not_started" =>
             /\ \A k \in SettingKeys : config[k] = Setting(environ, k)
             /\ \A c \in DOMAIN ConditionEnv :
                   config.HEALTH_CONDITIONS[c]
                      <=> (ConditionEnv[c] \in DOMAIN environ
                              => Lower(environ[ConditionEnv[c]]) = "true"))
    /\ [][/\ config' = config
          /\ Starts =>
                /\ \A k \in DOMAIN dotenv : environ'[k] = dotenv[k]
                /\ \A k \in DOMAIN environ \ DOMAIN dotenv : environ'[k] = environ[k]
                /\ pc' = "rejected" <=> \E k \in CredKeys : Setting(environ', k) = ""
                /\ pc' = "daily" =>
                      /\ api' = ClientOf(environ)
                      /\ \A k \in SettingKeys : Setting(environ, k) # ""
                /\ (pc' # "rejected" /\ \E k \in SettingKeys : Setting(environ, k) = "") =>
                      /\ pc' = "aborted"
                      /\ outcome' = "error"
                      /\ api' = NoApi]_vars
    /\ [](pc \in {"rejected", "aborted"} =>
             /\ calls = <<>>
             /\ sink = <<>>
             /\ ~ENABLED Next)

\* a run whose four credentials are in the .env file only: they are in the
\* environment after the load, the module's are empty, the run has ended
\* with an error at the construction of the client
C21_Witness ==
    /\ pc = "aborted"
    /\ outcome = "error"
    /\ \A k \in CredKeys :
          /\ config[k] = ""
          /\ k \in DOMAIN dotenv
          /\ environ[k] = dotenv[k]
          /\ environ[k] # ""
    /\ calls = <<>>
    /\ sink = <<>>

====
